---- MODULE Spec2Model ----
(***************************************************************************)
(* Model of the 25-series SPI flash driver of src/src/series25.rs.         *)
(*                                                                         *)
(* The driver value the caller holds carries a type-state (Ready or Busy); *)
(* every public operation is a sequence of calls on the two collaborators  *)
(* (the chip-select pin and the SPI bus), each of which may fail, in which *)
(* case the driver panics.  The log records every collaborator call of the *)
(* current public call, in order.  The chip is modelled by its busy flag:  *)
(* set when an erase or program frame ends, cleared by the chip alone.     *)
(***************************************************************************)
EXTENDS Integers, Sequences, FiniteSets, TLC

VARIABLES
    sizes,      \* InternalSizes held by the driver (series25.rs:121-126)
    target,     \* the build: what usize arithmetic beyond u32 does
    tstate,     \* type-state of the value the caller holds: None, Ready, Busy
    done,       \* Busy.done (series25.rs:18-20)
    pc,         \* position of the driver's code; "idle" = the caller has control
    call,       \* the public call in progress, or the last one that returned
    c,          \* loop index of the call in progress
    txbuf,      \* bytes the next exchange transmits
    ret,        \* where `command` returns to
    rx,         \* contents of the buffer after the last exchange
    cs,         \* level of the chip-select pin
    log,        \* collaborator calls of the current public call
    result,     \* value the last public call returned
    devBusy     \* the chip's internal erase/program cycle is running

vars == <<sizes, target, tstate, done, pc, call, c, txbuf, ret, rx, cs, log,
          result, devBusy>>

----------------------------------------------------------------------------
(* Bounds of the model.                                                    *)

MaxAmount == 3      \* erase_sectors / erase_blocks: amount in 0..MaxAmount
MaxLen == 5         \* write_bytes: Len(data) in 0..MaxLen
MaxRead == 2        \* read: Len(buf) in 0..MaxRead
MaxPolls == 3       \* init: at most MaxPolls status reads report busy
MaxBufLen == 5      \* from_jedec_id: short buffers of length 3..MaxBufLen

----------------------------------------------------------------------------
(* Widths and the opcode table.                                            *)

U8 == 256           \* 2^8: range of u8
U16 == 65536        \* 2^16: a u32 is kept as two 16-bit halves

ReadJedecId == 159  \* 0x9F
WriteEnable == 6    \* 0x06
ReadStatus == 5     \* 0x05
Read == 3           \* 0x03
PageProg == 2       \* 0x02
SectorErase == 32   \* 0x20
BlockErase == 216   \* 0xD8
ChipErase == 199    \* 0xC7

BUSY == 1           \* 1 << 0
WEL == 2            \* 1 << 1
PROT == 28          \* 0b00011100
SRWD == 128         \* 1 << 7

Continuation == 127 \* 0x7F

----------------------------------------------------------------------------
(* Bit operations on bytes.                                                *)

RECURSIVE BitAnd(_, _)
BitAnd(a, b) ==
    IF a = 0 \/ b = 0 THEN 0
    ELSE (a % 2) * (b % 2) + 2 * BitAnd(a \div 2, b \div 2)

RECURSIVE BitOr(_, _)
BitOr(a, b) ==
    IF a = 0 THEN b
    ELSE IF b = 0 THEN a
    ELSE (IF a % 2 = 1 \/ b % 2 = 1 THEN 1 ELSE 0) + 2 * BitOr(a \div 2, b \div 2)

\* Status::all(): the union of the named flags.
StatusAll == BitOr(BitOr(BUSY, WEL), BitOr(PROT, SRWD))

\* from_bits_unchecked: the raw byte is kept as it is
from_bits_unchecked(b) == b

\* Status::from_bits_truncate
from_bits_truncate(b) == BitAnd(b, StatusAll)

\* Status::contains
contains(status, flag) == BitAnd(status, flag) = flag

----------------------------------------------------------------------------
(* u32 addresses, kept as [hi, lo] with hi, lo in 0..U16-1.                *)

U32(h, l) == [hi |-> h, lo |-> l]

\* addr as usize + off, before any conversion: [hi, lo] with hi unbounded.
AddUsize(addr, off) ==
    LET l == addr.lo + (off % U16)
    IN  [hi |-> addr.hi + (off \div U16) + (l \div U16), lo |-> l % U16]

\* The sum does not fit a u32.
Overflows(sum) == sum.hi >= U16

\* The value a wrapping 32-bit usize holds.
Wrap32(sum) == [hi |-> sum.hi % U16, lo |-> sum.lo]

\* the address sent least significant byte first
AddrBytes_lsb(a) == <<a.lo % U8, (a.lo \div U8) % U8, a.hi % U8>>

\* [(a >> 16) as u8, (a >> 8) as u8, a as u8]
AddrBytes(a) == <<a.hi % U8, (a.lo \div U8) % U8, a.lo % U8>>

\* cmd_buf of an addressed command.
CmdBuf(opcode, a) == <<opcode>> \o AddrBytes(a)

----------------------------------------------------------------------------
(* Identification::from_jedec_id.                                          *)

Min(a, b) == IF a < b THEN a ELSE b

\* start_idx is left at the last index scanned when no byte differs
ScanStart_last(buf, n) ==
    LET hits == {i \in 0..(n - 1) : buf[i + 1] # Continuation}
    IN  IF hits = {} THEN n - 1
        ELSE CHOOSE i \in hits : \A j \in hits : i <= j

\* The for loop of from_jedec_id over the indices 0..n-1 (0-based): the
\* first index whose byte is not the continuation code (there the loop
\* breaks), else the initial 0.
ScanStart(buf, n) ==
    LET hits == {i \in 0..(n - 1) : buf[i + 1] # Continuation}
    IN  IF hits = {} THEN 0
        ELSE CHOOSE i \in hits : \A j \in hits : i <= j

\* start_idx as u8
AsU8(x) == x % U8

from_jedec_id(buf) ==
    LET start_idx == ScanStart(buf, Len(buf) - 2)
    IN  [bytes |-> <<buf[start_idx + 1], buf[start_idx + 2], buf[start_idx + 3]>>,
         continuations |-> AsU8(start_idx)]

mfr_code(id) == id.bytes[1]
device_id(id) == SubSeq(id.bytes, 2, 3)
continuation_count(id) == id.continuations

----------------------------------------------------------------------------
(* Inputs.                                                                 *)

\* InternalSizes the caller may supply.
Geometries ==
    { [page_size |-> 2,   sector_size |-> 4096, block_size |-> 65536,
       chip_size |-> 1048576],
      [page_size |-> 256, sector_size |-> 4096, block_size |-> 65536,
       chip_size |-> 1048576] }

\* usize arithmetic beyond u32::MAX: a 64-bit usize holds the sum and
\* try_into().unwrap() panics, a 32-bit usize panics on overflow when
\* overflow checks are on and wraps when they are off.
Targets == {"panics", "wraps"}

\* Addresses the caller passes: 0, 0xFF (the last byte of a page), 0x123456,
\* 0xAB123456, 0x00FFF000 (a carry into bits 16..23), 0xFFFFF000 and
\* 0xFFFFFFFF (sums beyond u32::MAX).
Addrs ==
    { U32(0, 0), U32(0, 255), U32(18, 13398), U32(43794, 13398),
      U32(255, 61440), U32(65535, 61440), U32(65535, 65535) }

\* The data of write_bytes: one sequence per length, all bytes distinct.
DataOf(len) == [i \in 1..len |-> 160 + i]

Zeros(len) == [i \in 1..len |-> 0]

\* Bits of the status register other than BUSY, as the chip reports them.
StatusOther == {0, 2, 96, 156}

\* The 11 bytes the chip answers to ReadJedecId.
JedecResponses ==
    { <<127, 127, 127, 127, 127, 127, 194, 34, 8, 0, 0>>,
      <<239, 64, 24, 0, 0, 0, 0, 0, 0, 0, 0>>,
      <<127, 127, 127, 127, 127, 127, 127, 127, 127, 127, 127>>,
      <<127, 127, 127, 127, 127, 127, 127, 127, 127, 127, 194>> }

Call(op, addr, n, data) == [op |-> op, addr |-> addr, n |-> n, data |-> data]

NoResult == [kind |-> "none", ready |-> FALSE, bits |-> 0,
             ident |-> [bytes |-> <<>>, continuations |-> 0]]
PollResult(r) == [NoResult EXCEPT !.kind = "poll", !.ready = r]
StatusResult(b) == [NoResult EXCEPT !.kind = "status", !.bits = b]
IdentResult(id) == [NoResult EXCEPT !.kind = "ident", !.ident = id]
UnitResult == [NoResult EXCEPT !.kind = "unit"]
FlashResult == [NoResult EXCEPT !.kind = "flash"]

----------------------------------------------------------------------------
(* The collaborators: cs.set_low, spi.transfer, spi.write, cs.set_high.    *)
(* Each either succeeds and the code goes on at `next`, or fails and the   *)
(* code panics.  Every call is logged, a failed one with ok = FALSE.       *)

Ev(kind, bytes, ok) == [ev |-> kind, tx |-> bytes, ok |-> ok]

\* panic!("flash panic"), a failed unwrap or a failed assert!: the program
\* ends there.
Panicked == "panicked"

\* the result of set_low is not looked at
set_low_unchecked(ok, next) ==
    /\ log' = Append(log, Ev("set_low", <<>>, ok))
    /\ cs' = IF ok THEN "low" ELSE cs
    /\ pc' = next

set_low(ok, next) ==
    /\ log' = Append(log, Ev("set_low", <<>>, ok))
    /\ cs' = IF ok THEN "low" ELSE cs
    /\ pc' = IF ok THEN next ELSE Panicked

\* What the chip shifts out while `bytes` are shifted in.
Responses(bytes) ==
    IF bytes # <<>> /\ Head(bytes) = ReadStatus /\ Len(bytes) = 2
    THEN { <<0, BitOr(o, IF devBusy THEN BUSY ELSE 0)>> : o \in StatusOther }
    ELSE IF bytes # <<>> /\ Head(bytes) = ReadJedecId /\ Len(bytes) = 12
    THEN { <<0>> \o r : r \in JedecResponses }
    ELSE { Zeros(Len(bytes)) }

transfer(ok, bytes, next) ==
    /\ log' = Append(log, Ev("transfer", bytes, ok))
    /\ \E resp \in Responses(bytes) : rx' = IF ok THEN resp ELSE rx
    /\ pc' = IF ok THEN next ELSE Panicked

write(ok, bytes, next) ==
    /\ log' = Append(log, Ev("write", bytes, ok))
    /\ pc' = IF ok THEN next ELSE Panicked

\* Opcodes that start an internal erase or program cycle of the chip.
StartsCycle(opcode) == opcode \in {PageProg, SectorErase, BlockErase, ChipErase}

\* chip-select is left as it is
set_high_skipped(ok, opcode, next) ==
    /\ log' = Append(log, Ev("set_high", <<>>, ok))
    /\ cs' = cs
    /\ devBusy' = (devBusy \/ (ok /\ StartsCycle(opcode)))
    /\ pc' = IF ok THEN next ELSE Panicked

\* The chip latches a command when chip-select rises.
set_high(ok, opcode, next) ==
    /\ log' = Append(log, Ev("set_high", <<>>, ok))
    /\ cs' = IF ok THEN "high" ELSE cs
    /\ devBusy' = (devBusy \/ (ok /\ StartsCycle(opcode)))
    /\ pc' = IF ok THEN next ELSE Panicked

\* The chip ends its internal cycle on its own, at any time.
DeviceFinish ==
    /\ devBusy
    /\ devBusy' = FALSE
    /\ UNCHANGED <<sizes, target, tstate, done, pc, call, c, txbuf, ret, rx,
                   cs, log, result>>

----------------------------------------------------------------------------
(* Flash::command (series25.rs:167-178).                                   *)

\* Enter command(bytes), to return to `to`.
EnterCommand(bytes, to) ==
    /\ txbuf' = bytes
    /\ ret' = to
    /\ pc' = "cmd_low"

CommandSetLow ==
    /\ pc = "cmd_low"
    /\ \E ok \in BOOLEAN : set_low(ok, "cmd_xfer")
    /\ UNCHANGED <<sizes, target, tstate, done, call, c, txbuf, ret, rx,
                   result, devBusy>>

\* In init the chip reports busy at most MaxPolls times.
PollBound ==
    (call.op = "init" /\ devBusy /\ Head(txbuf) = ReadStatus) => c < MaxPolls

CommandTransfer ==
    /\ pc = "cmd_xfer"
    /\ PollBound
    /\ \E ok \in BOOLEAN : transfer(ok, txbuf, "cmd_high")
    /\ UNCHANGED <<sizes, target, tstate, done, call, c, txbuf, ret, cs,
                   result, devBusy>>

CommandSetHigh ==
    /\ pc = "cmd_high"
    /\ \E ok \in BOOLEAN : set_high(ok, Head(txbuf), ret)
    /\ UNCHANGED <<sizes, target, tstate, done, call, c, txbuf, ret, rx,
                   result>>

----------------------------------------------------------------------------
(* Entering and leaving a public call.                                     *)

\* The caller enters a public method: nothing has been called yet.
Enter(op, addr, n, data) ==
    /\ pc = "idle"
    /\ call' = Call(op, addr, n, data)
    /\ log' = <<>>
    /\ c' = 0

\* ... and the method goes on to its first collaborator call.
Begin(op, addr, n, data) ==
    /\ Enter(op, addr, n, data)
    /\ result' = NoResult

Return(state, value) ==
    /\ tstate' = state
    /\ result' = value
    /\ pc' = "idle"

\* Busy { done: true }
NewBusyDone_true == TRUE

\* Busy { done: false }
NewBusyDone == FALSE

\* The operation hands the caller a Flash<SPI, CS, Busy>.
ReturnBusy ==
    /\ Return("Busy", FlashResult)
    /\ done' = NewBusyDone

\* [Opcode::ReadStatus as u8, 0]
StatusBuf == <<ReadStatus, 0>>

\* Status::from_bits_truncate(buf[1])
StatusRead == from_bits_truncate(rx[2])

\* the write-disable opcode 0x04 in place of write-enable
WriteEnableBuf_disable == <<4>>

\* [Opcode::WriteEnable as u8]
WriteEnableBuf == <<WriteEnable>>

----------------------------------------------------------------------------
(* Flash::init (series25.rs:153-165): the state at entry of its loop.      *)

Init ==
    /\ sizes \in Geometries
    /\ target \in Targets
    /\ tstate = "None"
    /\ done = FALSE
    /\ pc = "cmd_low"
    /\ call = Call("init", U32(0, 0), 0, <<>>)
    /\ c = 0
    /\ txbuf = StatusBuf
    /\ ret = "init_check"
    /\ rx = <<>>
    /\ cs = "high"
    /\ log = <<>>
    /\ result = NoResult
    /\ devBusy \in BOOLEAN

\* the loop tests the write-enable latch
InitLoops_wel(status) == contains(status, WEL)

\* while this.read_status().contains(Status::BUSY) {}
InitLoops(status) == contains(status, BUSY)

InitCheck ==
    /\ pc = "init_check"
    /\ IF InitLoops(StatusRead)
       THEN /\ c' = c + 1
            /\ EnterCommand(StatusBuf, "init_check")
            /\ UNCHANGED <<tstate, result>>
       ELSE /\ Return("Ready", FlashResult)
            /\ UNCHANGED <<c, txbuf, ret>>
    /\ UNCHANGED <<sizes, target, done, call, rx, cs, log, devBusy>>

----------------------------------------------------------------------------
(* impl Flash<SPI, CS, STATE>: read_jedec_id and read_status are public    *)
(* on a value of any type-state (series25.rs:144, 181-197).                *)

AnyState == {"Ready", "Busy"}

CallReadStatus ==
    /\ tstate \in AnyState
    /\ Begin("read_status", U32(0, 0), 0, <<>>)
    /\ EnterCommand(StatusBuf, "rs_ret")
    /\ UNCHANGED <<sizes, target, tstate, done, rx, cs, devBusy>>

ReadStatusReturn ==
    /\ pc = "rs_ret"
    /\ Return(tstate, StatusResult(StatusRead))
    /\ UNCHANGED <<sizes, target, done, call, c, txbuf, ret, rx, cs, log,
                   devBusy>>

\* buf: [u8; 12] = [0; 12]; buf[0] = Opcode::ReadJedecId as u8
JedecBuf == <<ReadJedecId>> \o Zeros(11)

CallReadJedecId ==
    /\ tstate \in AnyState
    /\ Begin("read_jedec_id", U32(0, 0), 0, <<>>)
    /\ EnterCommand(JedecBuf, "jedec_ret")
    /\ UNCHANGED <<sizes, target, tstate, done, rx, cs, devBusy>>

ReadJedecIdReturn ==
    /\ pc = "jedec_ret"
    /\ Return(tstate, IdentResult(from_jedec_id(Tail(rx))))
    /\ UNCHANGED <<sizes, target, done, call, c, txbuf, ret, rx, cs, log,
                   devBusy>>

----------------------------------------------------------------------------
(* impl Flash<SPI, CS, Busy>: wait and finish_waiting (series25.rs:205-229)*)

CallWait ==
    /\ tstate = "Busy"
    /\ Begin("wait", U32(0, 0), 0, <<>>)
    /\ EnterCommand(StatusBuf, "wait_check")
    /\ UNCHANGED <<sizes, target, tstate, done, rx, cs, devBusy>>

\* if status.contains(Status::BUSY) { return Poll::Pending; }
WaitPending(status) == contains(status, BUSY)

\* done is assigned the outcome of every poll
WaitDone_reset(d, status) == ~contains(status, BUSY)

\* done is never set
WaitDone_never(d, status) == d

\* done is set before the busy test
WaitDone_early(d, status) == TRUE

\* self.state.done = true, unless wait returned before it
WaitDone(d, status) == IF WaitPending(status) THEN d ELSE TRUE

WaitCheck ==
    /\ pc = "wait_check"
    /\ done' = WaitDone(done, StatusRead)
    /\ Return(tstate, PollResult(~WaitPending(StatusRead)))
    /\ UNCHANGED <<sizes, target, call, c, txbuf, ret, rx, cs, log, devBusy>>

\* assert!(self.state.done)
FinishAsserts(d) == d

FinishWaiting ==
    /\ tstate = "Busy"
    /\ pc = "idle"
    /\ call' = Call("finish_waiting", U32(0, 0), 0, <<>>)
    /\ log' = <<>>
    /\ c' = 0
    /\ IF FinishAsserts(done)
       THEN Return("Ready", FlashResult)
       ELSE /\ pc' = Panicked
            /\ result' = NoResult
            /\ UNCHANGED tstate
    /\ UNCHANGED <<sizes, target, done, txbuf, ret, rx, cs, devBusy>>

----------------------------------------------------------------------------
(* impl Flash<SPI, CS, Ready>: read (series25.rs:244-266).                 *)

CallRead ==
    /\ tstate = "Ready"
    /\ \E addr \in Addrs, len \in 0..MaxRead :
          /\ Begin("read", addr, len, <<>>)
          /\ txbuf' = CmdBuf(Read, addr)
    /\ pc' = "read_low"
    /\ UNCHANGED <<sizes, target, tstate, done, ret, rx, cs, devBusy>>

ReadSetLow ==
    /\ pc = "read_low"
    /\ \E ok \in BOOLEAN : set_low(ok, "read_hdr")
    /\ UNCHANGED <<sizes, target, tstate, done, call, c, txbuf, ret, rx,
                   result, devBusy>>

ReadHeader ==
    /\ pc = "read_hdr"
    /\ \E ok \in BOOLEAN : transfer(ok, txbuf, "read_data")
    /\ UNCHANGED <<sizes, target, tstate, done, call, c, txbuf, ret, cs,
                   result, devBusy>>

ReadData ==
    /\ pc = "read_data"
    /\ \E ok \in BOOLEAN : transfer(ok, Zeros(call.n), "read_high")
    /\ UNCHANGED <<sizes, target, tstate, done, call, c, txbuf, ret, cs,
                   result, devBusy>>

ReadSetHigh ==
    /\ pc = "read_high"
    /\ \E ok \in BOOLEAN :
          /\ set_high(ok, Read, "idle")
          /\ result' = IF ok THEN UnitResult ELSE result
    /\ UNCHANGED <<sizes, target, tstate, done, call, c, txbuf, ret, rx>>

----------------------------------------------------------------------------
(* erase_sectors and erase_blocks (series25.rs:273-324).                   *)

EraseOps == {"erase_sectors", "erase_blocks"}

\* Opcode::SectorErase / Opcode::BlockErase
EraseOpcode(op) == IF op = "erase_sectors" THEN SectorErase ELSE BlockErase

\* self.sizes.sector_size / self.sizes.block_size
EraseUnit(op) == IF op = "erase_sectors" THEN sizes.sector_size ELSE sizes.block_size

\* the range is taken inclusive: 0..=amount
InRange_inclusive(i, amount) == i <= amount

\* for c in 0..amount: is there an iteration with index i?
InRange(i, amount) == i < amount

CallErase ==
    /\ tstate = "Ready"
    /\ \E op \in EraseOps, addr \in Addrs, amount \in 0..MaxAmount :
          /\ Enter(op, addr, amount, <<>>)
          /\ IF InRange(0, amount)
             THEN /\ EnterCommand(WriteEnableBuf, "er_addr")
                  /\ result' = NoResult
                  /\ UNCHANGED <<tstate, done>>
             ELSE /\ ReturnBusy
                  /\ UNCHANGED <<txbuf, ret>>
    /\ UNCHANGED <<sizes, target, rx, cs, devBusy>>

\* (addr as usize + c * size).try_into().unwrap(): the u32 or a panic.
CurrentAddr(addr, i, size) == AddUsize(addr, i * size)
\* the address is checked against chip_size
AddrPanics_chip(sum) == sum.hi >= sizes.chip_size \div U16

AddrPanics(sum) == Overflows(sum) /\ target = "panics"

EraseAddr ==
    /\ pc = "er_addr"
    /\ LET sum == CurrentAddr(call.addr, c, EraseUnit(call.op))
       IN  IF AddrPanics(sum)
           THEN /\ pc' = Panicked
                /\ UNCHANGED <<txbuf, ret>>
           ELSE EnterCommand(CmdBuf(EraseOpcode(call.op), Wrap32(sum)), "er_next")
    /\ UNCHANGED <<sizes, target, tstate, done, call, c, rx, cs, log, result,
                   devBusy>>

EraseNext ==
    /\ pc = "er_next"
    /\ IF InRange(c + 1, call.n)
       THEN /\ c' = c + 1
            /\ EnterCommand(WriteEnableBuf, "er_addr")
            /\ UNCHANGED <<tstate, done, result>>
       ELSE /\ ReturnBusy
            /\ UNCHANGED <<c, txbuf, ret>>
    /\ UNCHANGED <<sizes, target, call, rx, cs, log, devBusy>>

----------------------------------------------------------------------------
(* write_bytes (series25.rs:332-366).                                      *)

\* empty data yields one empty chunk
RECURSIVE chunks_padded(_, _)
chunks_padded(data, size) ==
    IF Len(data) <= size THEN <<data>>
    ELSE <<SubSeq(data, 1, size)>> \o chunks_padded(SubSeq(data, size + 1, Len(data)), size)

\* chunks_exact: a shorter last chunk is left out
RECURSIVE chunks_exact(_, _)
chunks_exact(data, size) ==
    IF Len(data) < size THEN <<>>
    ELSE <<SubSeq(data, 1, size)>> \o chunks_exact(SubSeq(data, size + 1, Len(data)), size)

\* data.chunks(size), size > 0
RECURSIVE chunks(_, _)
chunks(data, size) ==
    IF data = <<>> THEN <<>>
    ELSE LET k == Min(size, Len(data))
         IN  <<SubSeq(data, 1, k)>> \o chunks(SubSeq(data, k + 1, Len(data)), size)

CallWriteBytes ==
    /\ tstate = "Ready"
    /\ \E addr \in Addrs, len \in 0..MaxLen :
          /\ Enter("write_bytes", addr, len, DataOf(len))
          /\ IF chunks(DataOf(len), sizes.page_size) # <<>>
             THEN /\ EnterCommand(WriteEnableBuf, "wb_addr")
                  /\ result' = NoResult
                  /\ UNCHANGED <<tstate, done>>
             ELSE /\ ReturnBusy
                  /\ UNCHANGED <<txbuf, ret>>
    /\ UNCHANGED <<sizes, target, rx, cs, devBusy>>

WriteAddr ==
    /\ pc = "wb_addr"
    /\ LET sum == CurrentAddr(call.addr, c, sizes.page_size)
       IN  IF AddrPanics(sum)
           THEN /\ pc' = Panicked
                /\ UNCHANGED txbuf
           ELSE /\ txbuf' = CmdBuf(PageProg, Wrap32(sum))
                /\ pc' = "wb_low"
    /\ UNCHANGED <<sizes, target, tstate, done, call, c, ret, rx, cs, log,
                   result, devBusy>>

WriteSetLow ==
    /\ pc = "wb_low"
    /\ \E ok \in BOOLEAN : set_low(ok, "wb_hdr")
    /\ UNCHANGED <<sizes, target, tstate, done, call, c, txbuf, ret, rx,
                   result, devBusy>>

WriteHeader ==
    /\ pc = "wb_hdr"
    /\ \E ok \in BOOLEAN : transfer(ok, txbuf, "wb_data")
    /\ UNCHANGED <<sizes, target, tstate, done, call, c, txbuf, ret, cs,
                   result, devBusy>>

WriteData ==
    /\ pc = "wb_data"
    /\ \E ok \in BOOLEAN :
          write(ok, chunks(call.data, sizes.page_size)[c + 1], "wb_high")
    /\ UNCHANGED <<sizes, target, tstate, done, call, c, txbuf, ret, rx, cs,
                   result, devBusy>>

WriteSetHigh ==
    /\ pc = "wb_high"
    /\ \E ok \in BOOLEAN : set_high(ok, PageProg, "wb_next")
    /\ UNCHANGED <<sizes, target, tstate, done, call, c, txbuf, ret, rx,
                   result>>

WriteNext ==
    /\ pc = "wb_next"
    /\ IF c + 1 < Len(chunks(call.data, sizes.page_size))
       THEN /\ c' = c + 1
            /\ EnterCommand(WriteEnableBuf, "wb_addr")
            /\ UNCHANGED <<tstate, done, result>>
       ELSE /\ ReturnBusy
            /\ UNCHANGED <<c, txbuf, ret>>
    /\ UNCHANGED <<sizes, target, call, rx, cs, log, devBusy>>

----------------------------------------------------------------------------
(* erase_all (series25.rs:372-383).                                        *)

\* [Opcode::ChipErase as u8]
ChipEraseBuf == <<ChipErase>>

CallEraseAll ==
    /\ tstate = "Ready"
    /\ Begin("erase_all", U32(0, 0), 0, <<>>)
    /\ EnterCommand(WriteEnableBuf, "ea_cmd")
    /\ UNCHANGED <<sizes, target, tstate, done, rx, cs, devBusy>>

EraseAllCommand ==
    /\ pc = "ea_cmd"
    /\ EnterCommand(ChipEraseBuf, "ea_ret")
    /\ UNCHANGED <<sizes, target, tstate, done, call, c, rx, cs, log, result,
                   devBusy>>

EraseAllReturn ==
    /\ pc = "ea_ret"
    /\ ReturnBusy
    /\ UNCHANGED <<sizes, target, call, c, txbuf, ret, rx, cs, log, devBusy>>

----------------------------------------------------------------------------
(* The driver and the chip.                                                *)

Next ==
    \/ CommandSetLow \/ CommandTransfer \/ CommandSetHigh
    \/ InitCheck
    \/ CallReadStatus \/ ReadStatusReturn
    \/ CallReadJedecId \/ ReadJedecIdReturn
    \/ CallWait \/ WaitCheck \/ FinishWaiting
    \/ CallRead \/ ReadSetLow \/ ReadHeader \/ ReadData \/ ReadSetHigh
    \/ CallErase \/ EraseAddr \/ EraseNext
    \/ CallWriteBytes \/ WriteAddr \/ WriteSetLow \/ WriteHeader
    \/ WriteData \/ WriteSetHigh \/ WriteNext
    \/ CallEraseAll \/ EraseAllCommand \/ EraseAllReturn
    \/ DeviceFinish

Spec == Init /\ [][Next]_vars

----------------------------------------------------------------------------
(* Identification::from_jedec_id as a function of its buffer alone: the    *)
(* caller passes a buffer, the decoder answers.                            *)

JedecBytes == {Continuation, 194, 34}

\* Runs of continuation codes around the range of the u8 that counts them.
LongRuns == {255, 256}

Run(k) == [i \in 1..k |-> Continuation]

JedecBufs ==
    UNION { [1..n -> JedecBytes] : n \in 3..MaxBufLen }
    \cup { Run(k) \o <<194, 34, 8>> : k \in LongRuns }

InitDecode ==
    /\ sizes \in Geometries
    /\ target = "panics"
    /\ tstate = "None"
    /\ done = FALSE
    /\ pc = "decode"
    /\ call \in { Call("from_jedec_id", U32(0, 0), 0, buf) : buf \in JedecBufs }
    /\ c = 0
    /\ txbuf = <<>>
    /\ ret = "idle"
    /\ rx = <<>>
    /\ cs = "high"
    /\ log = <<>>
    /\ result = NoResult
    /\ devBusy = FALSE

FromJedecId ==
    /\ pc = "decode"
    /\ result' = IdentResult(from_jedec_id(call.data))
    /\ pc' = "idle"
    /\ UNCHANGED <<sizes, target, tstate, done, call, c, txbuf, ret, rx, cs,
                   log, devBusy>>

NextDecode == FromJedecId

SpecDecode == InitDecode /\ [][NextDecode]_vars

----------------------------------------------------------------------------
(* What the claims speak of.                                               *)

\* The operations that start an erase or program cycle.
WorkOps == {"erase_sectors", "erase_blocks", "write_bytes", "erase_all"}

\* The caller has control and `op` is the call that returned last.
Returned(op) == pc = "idle" /\ call.op = op

\* The successful collaborator calls of one frame.
Frame(exchanges) ==
    <<Ev("set_low", <<>>, TRUE)>> \o exchanges \o <<Ev("set_high", <<>>, TRUE)>>

Sent(bytes) == Ev("transfer", bytes, TRUE)
Written(bytes) == Ev("write", bytes, TRUE)

\* The busy bit of a raw status byte.
BusyBit(raw) == raw % 2 = 1

\* An exchange that transmits the header of an erase, program or read.
IsWorkHeader(e) ==
    /\ e.ev = "transfer"
    /\ e.tx # <<>>
    /\ \/ Len(e.tx) = 4 /\ Head(e.tx) \in {Read, PageProg, SectorErase, BlockErase}
       \/ Len(e.tx) = 1 /\ Head(e.tx) = ChipErase

\* This step puts an event on the log.
Logs(e) == Len(log') = Len(log) + 1 /\ log'[Len(log')] = e

----------------------------------------------------------------------------
\* C1: while the caller holds a Busy (Pending) value, the only operation
\* invoked on it is the poll `wait` (and the closing finish_waiting), and the
\* only bus exchange is the status read of the poll: a read_status or a
\* read_jedec_id call is never in progress or completed on a Busy value.
C1_OnlyPollWhilePending ==
    tstate = "Busy" =>
        /\ call.op \in WorkOps \cup {"wait", "finish_waiting"}
        /\ call.op \notin WorkOps =>
              \A i \in 1..Len(log) : log[i].ev = "transfer" => log[i].tx = StatusBuf

\* C2: no header of an erase, program or read command is transmitted while
\* the chip's internal cycle, started by an earlier command, is running;
\* this includes the later units of a multi-unit erase or write.
C2_NoCommandWhileBusy ==
    [][ (\E e \in {log'[i] : i \in {Len(log')} \cap DOMAIN log'} :
            Logs(e) /\ e.ok /\ IsWorkHeader(e)) => ~devBusy ]_vars

\* The same for the first command of every public call only.
C2_FirstCommandNotBusy ==
    [][ (\E e \in {log'[i] : i \in {Len(log')} \cap DOMAIN log'} :
            Logs(e) /\ e.ok /\ IsWorkHeader(e) /\ c = 0) => ~devBusy ]_vars

----------------------------------------------------------------------------
\* C3: every erase/program operation returns a Busy value with done = FALSE;
\* done becomes TRUE only by a `wait` that reports Ready; finish_waiting on a
\* value with done = FALSE panics, and on a value with done = TRUE (a wait
\* has reported Ready) it returns a Ready value on which the operations of
\* the Ready state can be called.
C3_PendingAndFinish ==
    /\ [](\A op \in WorkOps :
              Returned(op) => tstate = "Busy" /\ done = FALSE /\ result = FlashResult)
    /\ [][(~done /\ done') =>
              call.op = "wait" /\ result'.kind = "poll" /\ result'.ready]_vars
    /\ []((Returned("wait") /\ result.ready) => tstate = "Busy" /\ done)
    /\ [][(call.op # "finish_waiting" /\ call'.op = "finish_waiting") =>
              IF done
              THEN tstate' = "Ready" /\ pc' = "idle" /\ result' = FlashResult
              ELSE pc' = Panicked /\ tstate' = "Busy" /\ result' = NoResult]_vars
    /\ [](Returned("finish_waiting") =>
              /\ tstate = "Ready"
              /\ ENABLED CallRead /\ ENABLED CallErase /\ ENABLED CallWriteBytes
              /\ ENABLED CallEraseAll /\ ENABLED CallReadStatus
              /\ ENABLED CallReadJedecId)

\* A finish_waiting that panicked after a multi-page write.
C3_Witness_FinishPanics ==
    /\ pc = Panicked
    /\ call.op = "finish_waiting"
    /\ tstate = "Busy"
    /\ ~done

\* A finish_waiting that returned a Ready value.
C3_Witness ==
    /\ Returned("finish_waiting")
    /\ tstate = "Ready"
    /\ done

\* C4: init hands the caller no driver before a status read has reported
\* not busy: while the type-state is None the caller has no control, every
\* status read of init that reports busy is followed by another status read,
\* and when init returns the last status read had the busy bit clear, the
\* value is Ready and the bus saw one status frame per read and nothing else.
C4_InitBarrier ==
    /\ [](tstate = "None" => pc # "idle" /\ call.op = "init")
    /\ [][(pc = "init_check" /\ pc' # "init_check" /\ BusyBit(rx[2])) =>
              /\ tstate' = "None"
              /\ pc' = "cmd_low"
              /\ txbuf' = <<ReadStatus, 0>>
              /\ ret' = "init_check"]_vars
    /\ [][(tstate = "None" /\ tstate' # "None") =>
              /\ tstate' = "Ready"
              /\ pc' = "idle"
              /\ ~BusyBit(rx[2])
              /\ log # <<>>
              /\ SubSeq(log, Len(log) - 2, Len(log))
                    = Frame(<<Sent(<<ReadStatus, 0>>)>>)]_vars
    /\ [](Returned("init") =>
              /\ Len(log) = 3 * (c + 1)
              /\ \A k \in 0..c :
                    SubSeq(log, 3 * k + 1, 3 * k + 3)
                       = Frame(<<Sent(<<ReadStatus, 0>>)>>))

\* init returned after several status reads that reported busy.
C4_Witness ==
    /\ Returned("init")
    /\ tstate = "Ready"
    /\ c >= 2

\* C5: a call of `wait` performs one status-register read frame and returns:
\* with the busy bit of that read set it reports Pending and leaves done as
\* it was, otherwise it sets done and reports Ready.
C5_WaitOnePoll ==
    /\ [](Returned("wait") =>
              /\ log = Frame(<<Sent(<<ReadStatus, 0>>)>>)
              /\ result = PollResult(~BusyBit(rx[2]))
              /\ tstate = "Busy")
    /\ [][(pc = "wait_check" /\ pc' # "wait_check") =>
              /\ pc' = "idle"
              /\ done' = (IF BusyBit(rx[2]) THEN done ELSE TRUE)]_vars

\* A wait that reported Pending on a value whose done was FALSE.
C5_Witness ==
    /\ Returned("wait")
    /\ ~result.ready
    /\ ~done
    /\ BusyBit(rx[2])

----------------------------------------------------------------------------
(* The bus traffic the claims describe, computed from the arguments of the *)
(* call on plain integers: the low 24 bits of an address, as a number.     *)

Low24(a) == (a.hi % 256) * 65536 + a.lo

\* The low 24 bits of addr + i * size.
UnitAddr24(addr, i, size) == (Low24(addr) + i * size) % 16777216

\* (v >> 16) mod 256, (v >> 8) mod 256, v mod 256
Bytes24(v) == <<(v \div 65536) % 256, (v \div 256) % 256, v % 256>>

WriteEnableFrame == Frame(<<Sent(<<WriteEnable>>)>>)

\* Units i..n-1 of an erase: write-enable, then opcode and address.
RECURSIVE ErasePairs(_, _, _, _, _)
ErasePairs(opcode, addr, size, i, n) ==
    IF i >= n THEN <<>>
    ELSE WriteEnableFrame
         \o Frame(<<Sent(<<opcode>> \o Bytes24(UnitAddr24(addr, i, size)))>>)
         \o ErasePairs(opcode, addr, size, i + 1, n)

\* ceil(len / page)
CeilDiv(len, page) == (len + page - 1) \div page

\* Pages i..n-1 of a write: write-enable, then opcode, address and the bytes
\* data[i*page .. min((i+1)*page, len)) in one frame.
RECURSIVE WritePages(_, _, _, _, _)
WritePages(addr, data, page, i, n) ==
    IF i >= n THEN <<>>
    ELSE WriteEnableFrame
         \o Frame(<<Sent(<<PageProg>> \o Bytes24(UnitAddr24(addr, i, page))),
                    Written(SubSeq(data, i * page + 1,
                                   Min((i + 1) * page, Len(data))))>>)
         \o WritePages(addr, data, page, i + 1, n)

\* The headers of addressed commands on the log, in order.
AddressedOpcodes == {Read, PageProg, SectorErase, BlockErase}
IsAddressed(e) ==
    e.ev = "transfer" /\ Len(e.tx) = 4 /\ Head(e.tx) \in AddressedOpcodes

\* How many addressed headers precede event i of the log.
UnitIndex(i) == Cardinality({j \in 1..(i - 1) : IsAddressed(log[j])})

\* The distance between the addresses of two units of the call.
UnitSize ==
    CASE call.op = "erase_sectors" -> sizes.sector_size
      [] call.op = "erase_blocks" -> sizes.block_size
      [] call.op = "write_bytes" -> sizes.page_size
      [] OTHER -> 0

RECURSIVE Concat(_)
Concat(ss) == IF ss = <<>> THEN <<>> ELSE Head(ss) \o Concat(Tail(ss))

\* The bytes spi.write sent, in order.
WrittenBytes ==
    Concat([i \in 1..Len(SelectSeq(log, LAMBDA e : e.ev = "write")) |->
               SelectSeq(log, LAMBDA e : e.ev = "write")[i].tx])

----------------------------------------------------------------------------
\* C6: when erase_sectors(addr, n) returns, the bus has seen exactly n pairs
\* of a write-enable frame and a sector-erase frame and nothing else, the
\* i-th pair carrying addr + i * sector_size, in increasing order of i;
\* erase_blocks does the same with the block-erase opcode and block_size.
C6_ErasePairs ==
    /\ Returned("erase_sectors") =>
          log = ErasePairs(SectorErase, call.addr, sizes.sector_size, 0, call.n)
    /\ Returned("erase_blocks") =>
          log = ErasePairs(BlockErase, call.addr, sizes.block_size, 0, call.n)

\* An erase of three sectors whose addresses carry into bits 16..23.
C6_Witness ==
    /\ Returned("erase_sectors")
    /\ call.n = 3
    /\ call.addr = U32(255, 61440)

\* C7: when write_bytes(addr, data) returns, with L = Len(data) and page_size
\* P > 0, the bus has seen exactly ceil(L / P) page-program frames, each after
\* its write-enable frame; frame i carries data[i*P .. min((i+1)*P, L)) at
\* address addr + i * P, and the chunks together are data.
C7_WritePages ==
    Returned("write_bytes") =>
        /\ log = WritePages(call.addr, call.data, sizes.page_size, 0,
                            CeilDiv(Len(call.data), sizes.page_size))
        /\ Cardinality({i \in 1..Len(log) : IsAddressed(log[i])})
              = CeilDiv(Len(call.data), sizes.page_size)
        /\ WrittenBytes = call.data

\* A write of 5 bytes in pages of 2: three frames, the last of one byte.
C7_Witness ==
    /\ Returned("write_bytes")
    /\ Len(call.data) = 5
    /\ sizes.page_size = 2
    /\ call.addr = U32(18, 13398)

\* C8: in every addressed command (read, sector erase, block erase, page
\* program) the three bytes after the opcode are (a >> 16) mod 256,
\* (a >> 8) mod 256, a mod 256 of the address a of that unit: the low 24
\* bits, most significant byte first; 0x123456 and 0xAB123456 both give
\* [0x12, 0x34, 0x56].
C8_AddressBytes ==
    \A i \in 1..Len(log) :
        IsAddressed(log[i]) =>
            /\ SubSeq(log[i].tx, 2, 4)
                  = Bytes24(UnitAddr24(call.addr, UnitIndex(i), UnitSize))
            /\ (UnitIndex(i) = 0 /\ call.addr \in {U32(18, 13398), U32(43794, 13398)})
                  => SubSeq(log[i].tx, 2, 4) = <<18, 52, 86>>

\* A read at 0xAB123456 whose header went out.
C8_Witness ==
    /\ call.op = "read"
    /\ call.addr = U32(43794, 13398)
    /\ Len(log) >= 2
    /\ IsAddressed(log[2])
    /\ log[2].ok

\* C9: for a buffer of k continuation bytes followed by [m, d0, d1] with
\* m # 0x7F, from_jedec_id yields continuation_count = k, mfr_code = m and
\* device_id = [d0, d1].
C9_DecodeRun ==
    Returned("from_jedec_id") =>
        LET buf == call.data
            k == Len(buf) - 3
        IN  ((\A i \in 1..k : buf[i] = Continuation) /\ buf[k + 1] # Continuation)
            => /\ continuation_count(result.ident) = k
               /\ mfr_code(result.ident) = buf[k + 1]
               /\ device_id(result.ident) = <<buf[k + 2], buf[k + 3]>>

\* The same with the count reduced to the u8 that holds it.
C9_DecodeRunModU8 ==
    Returned("from_jedec_id") =>
        LET buf == call.data
            k == Len(buf) - 3
        IN  ((\A i \in 1..k : buf[i] = Continuation) /\ buf[k + 1] # Continuation)
            => /\ continuation_count(result.ident) = k % 256
               /\ mfr_code(result.ident) = buf[k + 1]
               /\ device_id(result.ident) = <<buf[k + 2], buf[k + 3]>>

----------------------------------------------------------------------------
(* Flash::read_status as a function of the byte the chip answers: the      *)
(* status frame has been exchanged, the answer is any byte.                *)

RawBytes == 0..(U8 - 1)

InitStatus ==
    /\ sizes \in Geometries
    /\ target = "panics"
    /\ tstate = "Ready"
    /\ done = FALSE
    /\ pc = "rs_ret"
    /\ call = Call("read_status", U32(0, 0), 0, <<>>)
    /\ c = 0
    /\ txbuf = StatusBuf
    /\ ret = "rs_ret"
    /\ rx \in { <<0, raw>> : raw \in RawBytes }
    /\ cs = "high"
    /\ log = Frame(<<Sent(StatusBuf)>>)
    /\ result = NoResult
    /\ devBusy \in BOOLEAN

NextStatus == ReadStatusReturn

SpecStatus == InitStatus /\ [][NextStatus]_vars

\* Bit n of a byte.
Bit(b, n) == (b \div (2 ^ n)) % 2 = 1

----------------------------------------------------------------------------
\* C11: status decoding never fails and drops the reserved bits: for every
\* raw byte b, read_status returns the bits b AND 0b10011111 (bits 5 and 6
\* cleared, BUSY = bit 0, WEL = bit 1, PROT = bits 2-4, SRWD = bit 7 kept);
\* for b = 0b10000011 busy, write-enable-latch and SRWD are all set.
C11_StatusDecode ==
    Returned("read_status") =>
        LET b == rx[2]
        IN  /\ result.kind = "status"
            /\ result.bits = b - ((b \div 32) % 4) * 32
            /\ \A n \in {0, 1, 2, 3, 4, 7} : Bit(result.bits, n) = Bit(b, n)
            /\ ~Bit(result.bits, 5) /\ ~Bit(result.bits, 6)
            /\ b = 131 => /\ contains(result.bits, BUSY)
                          /\ contains(result.bits, WEL)
                          /\ contains(result.bits, SRWD)
                          /\ result.bits = 131

\* The byte 0b11100011, both reserved bits set, decoded.
C11_Witness ==
    /\ Returned("read_status")
    /\ rx[2] = 227
    /\ result.bits = 131

----------------------------------------------------------------------------
\* C12: every erase or program command (0x20, 0xD8, 0x02, 0xC7) on the bus
\* is immediately preceded by a write-enable frame of its own, the single
\* byte 0x06 between a chip-select assert and deassert, with nothing in
\* between; erase_all is one write-enable frame and one frame of the single
\* byte 0xC7.
IsProgramOrErase(e) ==
    /\ e.ev = "transfer"
    /\ e.tx # <<>>
    /\ \/ Len(e.tx) = 4 /\ Head(e.tx) \in {PageProg, SectorErase, BlockErase}
       \/ Len(e.tx) = 1 /\ Head(e.tx) = ChipErase

C12_WriteEnableBeforeEach ==
    /\ \A i \in 1..Len(log) :
          IsProgramOrErase(log[i]) =>
              /\ i >= 5
              /\ SubSeq(log, i - 4, i - 1)
                    = WriteEnableFrame \o <<Ev("set_low", <<>>, TRUE)>>
              /\ i >= 6 => ~IsProgramOrErase(log[i - 3]) /\ log[i - 5].ev = "set_high"
    /\ Returned("erase_all") =>
          log = WriteEnableFrame \o Frame(<<Sent(<<ChipErase>>)>>)

\* An erase_all that returned.
C12_Witness ==
    /\ Returned("erase_all")
    /\ Len(log) = 6
    /\ tstate = "Busy"

----------------------------------------------------------------------------
\* C13: absent transport failures every exchange happens with chip-select
\* asserted, every frame is assert, exchange(s), deassert with no nested
\* assert, the header and the data exchange of read and of page program are
\* in one frame, and chip-select is deasserted whenever a public operation
\* has returned.
IsExchange(e) == e.ev \in {"transfer", "write"}

NoFailure == \A i \in 1..Len(log) : log[i].ok

C13_ChipSelectBracketing ==
    /\ pc = "idle" => cs = "high"
    /\ NoFailure =>
          /\ cs = (IF log = <<>> \/ log[Len(log)].ev = "set_high"
                   THEN "high" ELSE "low")
          /\ \A i \in 1..Len(log) :
                /\ IsExchange(log[i]) =>
                      i > 1 /\ (log[i - 1].ev = "set_low" \/ IsExchange(log[i - 1]))
                /\ log[i].ev = "set_low" => i = 1 \/ log[i - 1].ev = "set_high"
                /\ log[i].ev = "set_high" => i > 1 /\ IsExchange(log[i - 1])
                /\ (IsAddressed(log[i]) /\ Head(log[i].tx) \in {Read, PageProg}
                       /\ i < Len(log))
                      => IsExchange(log[i + 1])
    /\ Returned("read") =>
          log = Frame(<<Sent(<<Read>> \o Bytes24(Low24(call.addr))),
                        Sent(Zeros(call.n))>>)

\* A read of two bytes that returned.
C13_Witness ==
    /\ Returned("read")
    /\ call.n = 2
    /\ Len(log) = 4
    /\ cs = "high"

----------------------------------------------------------------------------
\* C14: if the SPI transfer inside `command` fails, chip-select is driven
\* high all the same: it is never left asserted after a failed transfer.
C14_ChipSelectReleasedOnFailure ==
    (log # <<>> /\ log[Len(log)].ev = "transfer" /\ ~log[Len(log)].ok)
        => cs = "high"

----------------------------------------------------------------------------
(* The operation cycle when nothing fails: every collaborator call         *)
(* succeeds, the caller of a Busy value calls wait until it reports Ready  *)
(* and finish_waiting then, the driver's code keeps running and the chip   *)
(* ends every cycle it has started.                                        *)

DriverNext ==
    \/ CommandSetLow \/ CommandTransfer \/ CommandSetHigh
    \/ InitCheck
    \/ CallReadStatus \/ ReadStatusReturn
    \/ CallReadJedecId \/ ReadJedecIdReturn
    \/ CallWait \/ WaitCheck \/ FinishWaiting
    \/ CallRead \/ ReadSetLow \/ ReadHeader \/ ReadData \/ ReadSetHigh
    \/ CallErase \/ EraseAddr \/ EraseNext
    \/ CallWriteBytes \/ WriteAddr \/ WriteSetLow \/ WriteHeader
    \/ WriteData \/ WriteSetHigh \/ WriteNext
    \/ CallEraseAll \/ EraseAllCommand \/ EraseAllReturn

\* The caller of a Busy value polls, and finishes once a poll was Ready.
Polls ==
    (pc = "idle" /\ tstate = "Busy") =>
        call'.op = (IF done THEN "finish_waiting" ELSE "wait")

LiveDriver == DriverNext /\ Polls /\ NoFailure'

LiveNext == LiveDriver \/ DeviceFinish

SpecLive ==
    /\ Init
    /\ [][LiveNext]_vars
    /\ WF_vars(LiveDriver)
    /\ WF_vars(DeviceFinish)

----------------------------------------------------------------------------
\* C15: init returns a Ready value once the chip reports not busy, and does
\* not return on a status read that reports busy, however many there were;
\* after an erase/program call has returned a Busy value, with the chip
\* ending its cycle and the caller polling, some wait reports Ready, and
\* after that finish_waiting returns a Ready value.
C15_CycleCompletes ==
    /\ (tstate = "None") ~> (Returned("init") /\ tstate = "Ready")
    /\ (\E op \in WorkOps : Returned(op))
          ~> (Returned("wait") /\ result.ready /\ done)
    /\ (Returned("wait") /\ result.ready)
          ~> (Returned("finish_waiting") /\ tstate = "Ready")
    /\ [][(pc = "init_check" /\ BusyBit(rx[2]) /\ pc' # pc) =>
              tstate' = "None" /\ pc' = "cmd_low"]_vars

\* A wait that reported Ready once the chip had ended its cycle, after one
\* that reported Pending.
C15_Witness ==
    /\ Returned("wait")
    /\ result.ready
    /\ done
    /\ ~devBusy
    /\ tstate = "Busy"

----------------------------------------------------------------------------
\* The operations that compute the address of each unit.
UnitOps == {"erase_sectors", "erase_blocks", "write_bytes"}

\* addr + off is beyond u32::MAX (off < 2^30).
Exceeds(addr, off) ==
    /\ 65535 - addr.hi < 16384
    /\ off > (65535 - addr.hi) * 65536 + (65535 - addr.lo)

\* The code is at the address computation of unit c.
AtUnitAddr == pc \in {"er_addr", "wb_addr"}

\* C16 as claimed: erase_sectors, erase_blocks and write_bytes never abort
\* because of the size of the address: whenever one of them has aborted, a
\* collaborator call had failed.
C16_NeverAbortsOnAddress ==
    (pc = Panicked /\ call.op \in UnitOps) => ~NoFailure

\* C16 amended: no bound is checked against chip_size; unit i is issued with
\* the low 24 bits of addr + i * unit_size whenever addr + i * unit_size is
\* at most u32::MAX, and also beyond it on a build whose usize wraps at 32
\* bits; on the other builds the call panics at the first unit whose address
\* is beyond u32::MAX, after the write-enable frame of that unit.
C16_AbortsOnlyBeyondU32 ==
    /\ [][(AtUnitAddr /\ pc' # pc) =>
              IF target = "panics" /\ Exceeds(call.addr, c * UnitSize)
              THEN /\ pc' = Panicked
                   /\ UNCHANGED <<log, cs, tstate, result>>
                   /\ SubSeq(log, Len(log) - 2, Len(log)) = WriteEnableFrame
              ELSE /\ pc' \in {"cmd_low", "wb_low"}
                   /\ txbuf' = <<IF call.op = "write_bytes" THEN PageProg
                                 ELSE EraseOpcode(call.op)>>
                               \o Bytes24(UnitAddr24(call.addr, c, UnitSize))]_vars
    /\ []((pc = Panicked /\ call.op \in UnitOps /\ NoFailure) =>
              target = "panics" /\ Exceeds(call.addr, c * UnitSize))

\* A block erase far beyond chip_size that returned.
C16_Witness ==
    /\ Returned("erase_blocks")
    /\ call.addr = U32(43794, 13398)
    /\ call.n = 2
    /\ sizes.chip_size = 1048576

\* An erase that panicked at its second unit, beyond u32::MAX.
C16_Witness_Panic ==
    /\ pc = Panicked
    /\ call.op = "erase_sectors"
    /\ c = 1
    /\ NoFailure
    /\ call.addr = U32(65535, 61440)

----------------------------------------------------------------------------
----------------------------------------------------------------------------
(* The status byte as the code sees it: an input.  Here the chip may report *)
(* busy again after it has reported ready.                                  *)

DeviceRestart ==
    /\ ~devBusy
    /\ devBusy' = TRUE
    /\ UNCHANGED <<sizes, target, tstate, done, pc, call, c, txbuf, ret, rx,
                   cs, log, result>>

NextAnyStatus == Next \/ DeviceRestart

SpecAnyStatus == Init /\ [][NextAnyStatus]_vars

\* C18: done is monotonic on a Busy value: once a wait has reported Ready no
\* later wait resets it, not even one whose status read shows busy and which
\* reports Pending; done is set exactly by a wait that reports Ready, so
\* finish_waiting succeeds exactly when an earlier wait on the value reported
\* Ready, whatever the last wait reported.
C18_DoneMonotonic ==
    /\ [][(tstate = "Busy" /\ tstate' = "Busy" /\ done) => done']_vars
    /\ [][(pc = "wait_check" /\ pc' # pc /\ done /\ BusyBit(rx[2])) =>
              done' /\ result' = PollResult(FALSE) /\ pc' = "idle"]_vars
    /\ [][(tstate = "Busy" /\ (done' # done)) =>
              ~done /\ call.op = "wait" /\ result' = PollResult(TRUE)]_vars
    /\ []((Returned("wait") /\ result.ready) => done)
    /\ [](\A op \in WorkOps : Returned(op) => ~done)
    /\ [][(call.op # "finish_waiting" /\ call'.op = "finish_waiting") =>
              ((pc' = "idle" /\ tstate' = "Ready") <=> done)]_vars
    /\ [][(Returned("wait") /\ ~result.ready /\ done
              /\ call'.op = "finish_waiting") =>
              pc' = "idle" /\ tstate' = "Ready"]_vars

\* A wait that reported Pending on a value whose done was already TRUE.
C18_Witness ==
    /\ Returned("wait")
    /\ ~result.ready
    /\ BusyBit(rx[2])
    /\ done
    /\ tstate = "Busy"

----------------------------------------------------------------------------
\* C19: no page-program frame of write_bytes spans a page boundary of the
\* chip: for every chunk, the offset of its address within the page plus its
\* length is at most page_size.
C19_NoPageCrossing ==
    \A i \in 2..Len(log) :
        (log[i].ev = "write" /\ IsAddressed(log[i - 1])) =>
            LET hdr == log[i - 1].tx
                a == hdr[2] * 65536 + hdr[3] * 256 + hdr[4]
            IN  (a % sizes.page_size) + Len(log[i].tx) <= sizes.page_size

\* The same for writes that start on a page boundary.
C19_NoPageCrossingAligned ==
    (call.op = "write_bytes" /\ Low24(call.addr) % sizes.page_size = 0) =>
        C19_NoPageCrossing

----------------------------------------------------------------------------
\* The call does no work: an erase of no unit, a write of no byte.
ZeroWork ==
    \/ call.op \in EraseOps /\ call.n = 0
    \/ call.op = "write_bytes" /\ call.data = <<>>

\* C20: erase_sectors / erase_blocks with amount 0 and write_bytes with empty
\* data call no collaborator at all, not even for a write-enable, and still
\* return a Busy value with done = FALSE: a finish_waiting right after it
\* panics, and done is set only by a wait, with its one status read,
\* reporting Ready.
C20_ZeroWorkStillPending ==
    /\ []((pc = "idle" /\ ZeroWork) =>
              /\ log = <<>>
              /\ tstate = "Busy"
              /\ ~done
              /\ result = FlashResult
              /\ cs = "high")
    /\ [][(pc = "idle" /\ ZeroWork /\ call'.op = "finish_waiting") =>
              pc' = Panicked /\ log' = <<>>]_vars
    /\ [][(pc = "idle" /\ tstate = "Busy" /\ call'.op = "finish_waiting") =>
              (pc' = Panicked <=> ~done)]_vars
    /\ [][(tstate = "Busy" /\ ~done /\ done') =>
              /\ log = Frame(<<Sent(<<ReadStatus, 0>>)>>)
              /\ result' = PollResult(TRUE)]_vars

\* A write of no bytes that returned.
C20_Witness ==
    /\ pc = "idle"
    /\ call.op = "write_bytes"
    /\ call.data = <<>>
    /\ log = <<>>
    /\ tstate = "Busy"
    /\ ~done

====
